---- MODULE Spec2Model ----
(***************************************************************************)
(* Model of stratifiedRandomSampler.py: one run of main() over one input   *)
(* CSV.  A table (pandas DataFrame) is a sequence of rows; a row is a      *)
(* record holding its index label and the four columns the script reads.   *)
(* A missing cell (NaN) is the value NaN.  A StartDateTime cell is a pair  *)
(* <<kind, hour>>: <<"str", h>> is text whose hour field reads h,          *)
(* <<"ts", h>> a parsed Timestamp, <<"NaT", 0>> the missing timestamp.     *)
(***************************************************************************)
EXTENDS Integers, Sequences, FiniteSets, TLC

\* ---------------------------------------------------------------- constants
MINIMUM_RECORD_DURATION == 60
NumHours == 24

\* ------------------------------------------------------------------ bounds
NumDevices == 2
MaxArgs == 3

\* ------------------------------------------------------------ input domain
NaN == "NaN"
NaT == <<"NaT", 0>>
DeviceNames == <<"D1", "D2", "D3", "D4", "D5">>
ScriptPath == "./stratifiedRandomSampler.py"
ArgPaths == <<"a1.csv", "a2.csv", "a3.csv", "a4.csv", "a5.csv">>
TypedInput == "in.csv"
TypedOutput == "out.csv"
DefectHours == {0, 11, NumHours - 1}
Kinds ==
    {"absent", "error", "dur30", "dur60", "dur61", "badtime", "nulldev", "dup",
     "lone", "stray"}
Profiles == {[kind |-> "full", hour |-> 0]} \cup [kind : Kinds, hour : DefectHours]
\* Profiles of the devices other than the one under study.
BasicProfiles ==
    {[kind |-> "full", hour |-> 0], [kind |-> "absent", hour |-> NumHours - 1]}

isnull(v) == v = NaN

GoodRow(dev, h) ==
    [index |-> 0, AudioMothCode |-> dev, Error |-> NaN, Duration |-> 120,
     StartDateTime |-> <<"str", h>>]

\* The rows one device contributes for hour h of its block under profile p.
BlockRows(dev, p, h) ==
    LET g == GoodRow(dev, h) IN
    IF p.kind = "lone" THEN (IF h = p.hour THEN <<g>> ELSE <<>>)
    ELSE IF h # p.hour \/ p.kind = "full" THEN <<g>>
    ELSE CASE p.kind = "absent"  -> <<>>
           [] p.kind = "error"   -> <<[g EXCEPT !.Error = "err"]>>
           [] p.kind = "dur30"   -> <<[g EXCEPT !.Duration = 30]>>
           [] p.kind = "dur60"   -> <<[g EXCEPT !.Duration = MINIMUM_RECORD_DURATION]>>
           [] p.kind = "dur61"   -> <<[g EXCEPT !.Duration = MINIMUM_RECORD_DURATION + 1]>>
           [] p.kind = "badtime" -> <<[g EXCEPT !.StartDateTime = <<"str", NumHours>>]>>
           [] p.kind = "nulldev" -> <<[g EXCEPT !.AudioMothCode = NaN]>>
           [] p.kind = "dup"     -> <<g, [g EXCEPT !.Duration = 61]>>
           [] p.kind = "stray"   -> <<g, [GoodRow(DeviceNames[1], h) EXCEPT !.Duration = 90]>>

RECURSIVE Block(_, _, _)
Block(dev, p, h) ==
    IF h >= NumHours THEN <<>> ELSE BlockRows(dev, p, h) \o Block(dev, p, h + 1)

RECURSIVE Blocks(_, _)
Blocks(ps, i) ==
    IF i > Len(ps) THEN <<>> ELSE Block(DeviceNames[i], ps[i], 0) \o Blocks(ps, i + 1)

\* read_csv labels the rows 0, 1, 2, ... in file order.
WithIndex(t) == [i \in 1..Len(t) |-> [t[i] EXCEPT !.index = i - 1]]

\* One device takes any profile, the others a basic one.
ProfileLists ==
    {ps \in [1..NumDevices -> Profiles] :
        \E i \in 1..NumDevices : \A j \in 1..NumDevices \ {i} : ps[j] \in BasicProfiles}

\* The file contents read_csv may return: the generated tables and the
\* table of a file that holds only the header line.
Tables == {WithIndex(Blocks(ps, 1)) : ps \in ProfileLists} \cup {<<>>}

\* ------------------------------------------------------------------- state
VARIABLES
    USE_COMMAND_LINE_ARGS,  \* module flag (line 14)
    argv,                   \* sys.argv
    pc,                     \* position in main()
    input_file_path, output_file_path,
    csv_rows,               \* what read_csv returned (the raw table)
    imported_data,
    device_samples,         \* list of distinct device ids
    devIdx,                 \* position of the for loop over device_samples
    hour,                   \* position of the for loop over range(0, 24)
    this_samples,           \* pick_random_sample's local output frame
    returned,               \* return values of pick_random_sample, per call
    df_output,
    io,                     \* file operations performed, in order
    written,                \* contents of the output file
    stdout, stderr,
    result                  \* main()'s return value

vars == <<USE_COMMAND_LINE_ARGS, argv, pc, input_file_path, output_file_path,
          csv_rows, imported_data, device_samples, devIdx, hour, this_samples,
          returned, df_output, io, written, stdout, stderr, result>>

None == "None"

\* A line on standard output: the text, the device and the hour it names.
Msg(text, device, h) == <<text, device, h>>

\* --------------------------------------------------------- pure functions
\* Variant: notnull() for isnull(), keeping the erroneous rows instead.
KeepRow_notnull(r) == ~isnull(r.Error)

\* remove_erroneous_rows (lines 24-25)
KeepRow(r) == isnull(r.Error)
remove_erroneous_rows(t) == SelectSeq(t, KeepRow)

\* Variant: an out-of-range hour field wraps around instead of failing.
to_datetime_wrap(v) ==
    IF v[1] = "ts" THEN v
    ELSE IF v[1] = "str" /\ v[2] >= 0 THEN <<"ts", v[2] % 24>>
    ELSE NaT

\* Variant: only text is parsed; a value that is already a Timestamp is lost.
to_datetime_textonly(v) ==
    IF v[1] = "str" /\ v[2] \in 0..23 THEN <<"ts", v[2]>> ELSE NaT

\* pandas.to_datetime(..., errors='coerce') on one cell (line 106)
to_datetime(v) ==
    IF v[1] = "ts" THEN v
    ELSE IF v[1] = "str" /\ v[2] \in 0..23 THEN <<"ts", v[2]>>
    ELSE NaT

ConvertDates(t) ==
    [i \in 1..Len(t) |-> [t[i] EXCEPT !.StartDateTime = to_datetime(@)]]

\* lines 100 and 106 together
Clean(t) == ConvertDates(remove_erroneous_rows(t))

\* Series.dt.hour == hour (line 43); the hour of NaT is NaN and equals nothing
HourIs(v, h) == v[1] = "ts" /\ v[2] = h

\* Series.unique().tolist() (line 111): first-appearance order, NaN kept
RECURSIVE unique(_, _)
unique(t, seen) ==
    IF t = <<>> THEN <<>>
    ELSE LET d == Head(t).AudioMothCode IN
         IF d \in seen THEN unique(Tail(t), seen)
         ELSE <<d>> \o unique(Tail(t), seen \cup {d})

\* line 38: NaN == device_id is False for every row
MatchesDevice(r, device_id) == ~isnull(r.AudioMothCode) /\ r.AudioMothCode = device_id

\* Variant: >= for >.
LongEnough_ge(r) == r.Duration >= MINIMUM_RECORD_DURATION

\* line 39
LongEnough(r) == r.Duration > MINIMUM_RECORD_DURATION

device_id_samples_of_min_length(t, device_id) ==
    LET Test(r) == MatchesDevice(r, device_id) /\ LongEnough(r) IN SelectSeq(t, Test)

\* Variant: the hour filter is applied to device_id_samples, the frame
\* before the minimum-length filter.
data_for_hour_anylength(t, device_id, h) ==
    LET Test(r) == MatchesDevice(r, device_id) /\ HourIs(r.StartDateTime, h)
    IN SelectSeq(t, Test)

\* line 43
data_for_hour(t, device_id, h) ==
    LET Test(r) == HourIs(r.StartDateTime, h)
    IN SelectSeq(device_id_samples_of_min_length(t, device_id), Test)

Range(s) == {s[i] : i \in 1..Len(s)}

\* Variant: the hours picked so far are returned as a sample.
ReturnOnEmpty_partial(picked) == <<TRUE, picked>>

\* line 46: what pick_random_sample returns on an hour without recordings
ReturnOnEmpty(picked) == <<FALSE, None>>

\* line 51
ReturnOnFull(picked) == <<TRUE, picked>>

\* main, lines 124-128
AppendIfSelected(out, ret) == IF ret[1] THEN out \o ret[2] ELSE out

\* Variant: the except branch falls through to "return True".
ReturnAfterWrite_true(ok) == TRUE

\* main, lines 140 and 143: the value main returns after to_csv
ReturnAfterWrite(ok) == ok

\* ------------------------------------------------------------------- Init
Init ==
    /\ USE_COMMAND_LINE_ARGS \in BOOLEAN
    /\ argv \in {<<ScriptPath>> \o SubSeq(ArgPaths, 1, n) : n \in 0..MaxArgs}
    /\ (~USE_COMMAND_LINE_ARGS => Len(argv) = 1)
    /\ pc = "paths"
    /\ input_file_path = None
    /\ output_file_path = None
    /\ csv_rows = <<>>
    /\ imported_data = <<>>
    /\ device_samples = <<>>
    /\ devIdx = 0
    /\ hour = 0
    /\ this_samples = <<>>
    /\ returned = <<>>
    /\ df_output = <<>>
    /\ io = <<>>
    /\ written = None
    /\ stdout = <<>>
    /\ stderr = <<>>
    /\ result = None

\* ---------------------------------------------------------------- actions
\* get_file_to_open (lines 55-64); Python indexes sys.argv from 0
get_file_to_open ==
    IF USE_COMMAND_LINE_ARGS
    THEN IF ~(Len(argv) = 2) THEN None ELSE argv[0 + 1]
    ELSE TypedInput

\* get_file_output_path (lines 66-75)
get_file_output_path ==
    IF USE_COMMAND_LINE_ARGS
    THEN IF ~(Len(argv) = 2) THEN None ELSE argv[1 + 1]
    ELSE TypedOutput

\* main, lines 82-87
GetPaths ==
    /\ pc = "paths"
    /\ input_file_path' = get_file_to_open
    /\ IF get_file_to_open = None
       THEN /\ output_file_path' = None
            /\ stderr' = Append(stderr, "usage")
            /\ result' = FALSE
            /\ pc' = "done"
       ELSE /\ output_file_path' = get_file_output_path
            /\ IF get_file_output_path = None
               THEN /\ stderr' = Append(stderr, "usage")
                    /\ result' = FALSE
                    /\ pc' = "done"
               ELSE /\ UNCHANGED <<stderr, result>>
                    /\ pc' = "read"
    /\ UNCHANGED <<USE_COMMAND_LINE_ARGS, argv, csv_rows, imported_data,
                   device_samples, devIdx, hour, this_samples, returned,
                   df_output, io, written, stdout>>

\* main, lines 90-96: read_csv either raises (caught) or returns a table
ReadCsv ==
    /\ pc = "read"
    /\ \/ /\ io' = Append(io, <<"read", input_file_path, FALSE>>)
          /\ stderr' = Append(stderr, "Error when opening CSV File")
          /\ result' = FALSE
          /\ pc' = "done"
          /\ UNCHANGED <<csv_rows, imported_data>>
       \/ \E t \in Tables :
            /\ io' = Append(io, <<"read", input_file_path, TRUE>>)
            /\ csv_rows' = t
            /\ imported_data' = t
            /\ pc' = "clean"
            /\ UNCHANGED <<stderr, result>>
    /\ UNCHANGED <<USE_COMMAND_LINE_ARGS, argv, input_file_path, output_file_path,
                   device_samples, devIdx, hour, this_samples, returned,
                   df_output, written, stdout>>

\* main, lines 99-107
CleanData ==
    /\ pc = "clean"
    /\ imported_data' = Clean(imported_data)
    /\ stdout' = stdout \o <<Msg("Erroneous rows removed!", "", 0),
                             Msg("Strings converted!", "", 0)>>
    /\ pc' = "devices"
    /\ UNCHANGED <<USE_COMMAND_LINE_ARGS, argv, input_file_path, output_file_path,
                   csv_rows, device_samples, devIdx, hour, this_samples,
                   returned, df_output, io, written, stderr, result>>

\* main, lines 110-116
GetDevices ==
    /\ pc = "devices"
    /\ device_samples' = unique(imported_data, {})
    /\ df_output' = <<>>
    /\ devIdx' = 1
    /\ pc' = "loop"
    /\ UNCHANGED <<USE_COMMAND_LINE_ARGS, argv, input_file_path, output_file_path,
                   csv_rows, imported_data, hour, this_samples, returned, io,
                   written, stdout, stderr, result>>

\* line 121: str + device raises TypeError when device is the float NaN
CanConcat(device) == ~isnull(device)

\* main, lines 120-122 and pick_random_sample, lines 35-39
AttemptDevice ==
    /\ pc = "loop"
    /\ devIdx <= Len(device_samples)
    /\ LET device == device_samples[devIdx] IN
       IF CanConcat(device)
       THEN /\ stdout' = Append(stdout, Msg("Attempting", device, 0))
            /\ this_samples' = <<>>
            /\ hour' = 0
            /\ pc' = "hour"
       ELSE /\ pc' = "raised"
            /\ UNCHANGED <<stdout, this_samples, hour>>
    /\ UNCHANGED <<USE_COMMAND_LINE_ARGS, argv, input_file_path, output_file_path,
                   csv_rows, imported_data, device_samples, devIdx, returned,
                   df_output, io, written, stderr, result>>

\* pick_random_sample, lines 42-48, one pass of the loop; on an empty hour
\* lines 45-46 and main, lines 127-128
PickHour ==
    /\ pc = "hour"
    /\ hour < NumHours
    /\ LET device == device_samples[devIdx]
           cands == data_for_hour(imported_data, device, hour) IN
       IF Len(cands) < 1
       THEN LET ret == ReturnOnEmpty(this_samples) IN
            /\ returned' = Append(returned, <<device>> \o ret)
            /\ stdout' = stdout \o <<Msg("no recordings", device, hour),
                                     Msg(IF ret[1] THEN "Sample picked!"
                                                   ELSE "Device is invalid.", device, 0)>>
            /\ df_output' = AppendIfSelected(df_output, ret)
            /\ this_samples' = <<>>
            /\ devIdx' = devIdx + 1
            /\ pc' = "loop"
            /\ UNCHANGED hour
       ELSE /\ \E r \in Range(cands) : this_samples' = Append(this_samples, r)
            /\ hour' = hour + 1
            /\ UNCHANGED <<returned, stdout, devIdx, pc, df_output>>
    /\ UNCHANGED <<USE_COMMAND_LINE_ARGS, argv, input_file_path, output_file_path,
                   csv_rows, imported_data, device_samples, io, written, stderr,
                   result>>

\* pick_random_sample, line 51 and main, lines 124-126
PickReturn ==
    /\ pc = "hour"
    /\ hour = NumHours
    /\ LET ret == ReturnOnFull(this_samples) IN
       /\ returned' = Append(returned, <<device_samples[devIdx]>> \o ret)
       /\ stdout' = Append(stdout, Msg(IF ret[1] THEN "Sample picked!"
                                                  ELSE "Device is invalid.",
                                        device_samples[devIdx], 0))
       /\ df_output' = AppendIfSelected(df_output, ret)
    /\ this_samples' = <<>>
    /\ devIdx' = devIdx + 1
    /\ pc' = "loop"
    /\ UNCHANGED <<USE_COMMAND_LINE_ARGS, argv, input_file_path, output_file_path,
                   csv_rows, imported_data, device_samples, hour, io, written,
                   stderr, result>>

\* main, lines 131-143: to_csv either raises (caught) or writes the file
WriteCsv ==
    /\ pc = "loop"
    /\ devIdx > Len(device_samples)
    /\ \/ /\ io' = Append(io, <<"write", output_file_path, FALSE>>)
          /\ stderr' = Append(stderr, "Error when writing to CSV File")
          /\ result' = ReturnAfterWrite(FALSE)
          /\ UNCHANGED written
       \/ /\ io' = Append(io, <<"write", output_file_path, TRUE>>)
          /\ written' = df_output
          /\ result' = ReturnAfterWrite(TRUE)
          /\ UNCHANGED stderr
    /\ pc' = "done"
    /\ UNCHANGED <<USE_COMMAND_LINE_ARGS, argv, input_file_path, output_file_path,
                   csv_rows, imported_data, device_samples, devIdx, hour,
                   this_samples, returned, df_output, stdout>>

Next ==
    \/ GetPaths
    \/ ReadCsv
    \/ CleanData
    \/ GetDevices
    \/ AttemptDevice
    \/ PickHour
    \/ PickReturn
    \/ WriteCsv

Spec == Init /\ [][Next]_vars

\* ------------------------------------------------------------- properties
ReadOk == io # <<>> /\ io[1][3]
Cleaned == ReadOk /\ pc # "clean"
LoopFinished == ReadOk /\ pc \in {"loop", "done"} /\ devIdx > Len(device_samples)
Hours == 0..(NumHours - 1)
Indexes(t) == {t[i].index : i \in 1..Len(t)}
Calls == 1..Len(returned)
\* main has returned the value b.
Returned(b) == pc = "done" /\ result = b

\* An eligible recording of device d in hour h, stated on the cleaned row.
Eligible(r, d, h) ==
    /\ r.AudioMothCode = d
    /\ r.Duration > 60
    /\ r.StartDateTime = <<"ts", h>>

\* C1: every sample pick_random_sample returns with True has exactly 24
\* records, the k-th starting in hour k, each a row of the cleaned table of
\* that device with a duration above 60, whichever rows were drawn.
C1_AcceptedSampleShape ==
    \A i \in Calls :
        returned[i][2] =>
            LET d == returned[i][1]
                s == returned[i][3] IN
            /\ Len(s) = 24
            /\ \A k \in 1..Len(s) :
                  /\ \E j \in 1..Len(imported_data) : imported_data[j] = s[k]
                  /\ Eligible(s[k], d, k - 1)

\* A device was accepted and the draw for hour 0 took the second of two
\* candidate rows.
C1_Witness ==
    \E i \in Calls : returned[i][2] /\ returned[i][3][1].Duration = 61

RECURSIVE ConcatSelected(_)
ConcatSelected(rets) ==
    IF rets = <<>> THEN <<>>
    ELSE (IF Head(rets)[2] THEN Head(rets)[3] ELSE <<>>) \o ConcatSelected(Tail(rets))

\* C3: once the loop over the devices has ended, the output table is the
\* concatenation, in processing order, of the samples of the accepted
\* devices, has 24 rows per accepted device and no row of a rejected one.
C3_OutputIsAcceptedSamples ==
    LoopFinished =>
        /\ df_output = ConcatSelected(returned)
        /\ Len(df_output) = 24 * Cardinality({i \in Calls : returned[i][2]})
        /\ \A i \in Calls :
              ~returned[i][2] =>
                  \A k \in 1..Len(df_output) : df_output[k].AudioMothCode # returned[i][1]
        /\ (Returned(TRUE) => written = df_output)

\* The loop ended with one device accepted and another rejected at hour 23,
\* after 23 hours had been picked for it.
C3_Witness ==
    /\ LoopFinished
    /\ \E i \in Calls : returned[i][2]
    /\ \E k \in 1..Len(stdout) : stdout[k][1] = "no recordings" /\ stdout[k][3] = 23

\* C4: the cleaned table holds exactly the input rows whose Error is null,
\* in input order, so it is never longer than the input and as long as the
\* input exactly when no input row has an error.
C4_CleanKeepsNullErrorRows ==
    Cleaned =>
        /\ \A i \in 1..Len(imported_data) : imported_data[i].Error = NaN
        /\ Indexes(imported_data) = {csv_rows[i].index : i \in {j \in 1..Len(csv_rows) : csv_rows[j].Error = NaN}}
        /\ Len(imported_data) = Cardinality(Indexes(imported_data))
        /\ \A i \in 1..Len(imported_data) :
              LET q == csv_rows[imported_data[i].index + 1] IN
              /\ q.AudioMothCode = imported_data[i].AudioMothCode
              /\ q.Duration = imported_data[i].Duration
              /\ q.Error = imported_data[i].Error
        /\ Len(imported_data) <= Len(csv_rows)
        /\ (Len(imported_data) = Len(csv_rows)
               <=> \A i \in 1..Len(csv_rows) : csv_rows[i].Error = NaN)

\* The input held a row with an error and the cleaned table is shorter.
C4_Witness ==
    /\ Cleaned
    /\ Len(imported_data) < Len(csv_rows)
    /\ Len(imported_data) > 0

\* Input rows without error whose StartDateTime text does not parse.
Unparseable == {i \in 1..Len(csv_rows) :
                   /\ csv_rows[i].Error = NaN
                   /\ csv_rows[i].StartDateTime[1] = "str"
                   /\ csv_rows[i].StartDateTime[2] \notin Hours}

\* C5: after cleaning, a row whose StartDateTime did not parse is still in
\* the table with a missing timestamp, is in no hour's bucket of any device,
\* is in no sample and not in the output, and the clean step goes on to the
\* device enumeration.
C5_UnparseableNeverSampled ==
    Cleaned =>
        \A i \in Unparseable :
            LET x == csv_rows[i].index IN
            /\ \E r \in Range(imported_data) : r.index = x /\ r.StartDateTime = NaT
            /\ \A k \in 1..Len(device_samples) : \A h \in Hours :
                  x \notin Indexes(data_for_hour(imported_data, device_samples[k], h))
            /\ x \notin Indexes(this_samples)
            /\ x \notin Indexes(df_output)
            /\ (Returned(TRUE) => x \notin Indexes(written))
            /\ (pc = "raised" => \E r \in Range(imported_data) : isnull(r.AudioMothCode))

\* A run over a table with an unparseable start time ended with a
\* non-empty output written.
C5_Witness ==
    /\ Unparseable # {}
    /\ Returned(TRUE)
    /\ Len(written) > 0

Attempts(d) == Cardinality({k \in 1..Len(stdout) : stdout[k][1] = "Attempting" /\ stdout[k][2] = d})
Ended == pc \in {"done", "raised"}

\* C6: when a run that read its input has ended, the Sampler has been
\* invoked exactly once for each distinct device id of the cleaned table.
C6_EveryDeviceSampledOnce ==
    (Ended /\ ReadOk) =>
        \A i \in 1..Len(imported_data) :
            ~isnull(imported_data[i].AudioMothCode) => Attempts(imported_data[i].AudioMothCode) = 1

IoReads == {k \in 1..Len(io) : io[k][1] = "read"}
IoWrites == {k \in 1..Len(io) : io[k][1] = "write"}

\* C7: main returns True only after a successful read, a finished loop and
\* a successful write; a failed read or a failed write ends main with False,
\* the failed read with nothing written; no file operation is repeated and
\* none ends the run with an exception.
C7_ResultReflectsIo ==
    /\ (Returned(TRUE) =>
           /\ io = <<<<"read", input_file_path, TRUE>>, <<"write", output_file_path, TRUE>>>>
           /\ LoopFinished
           /\ written = df_output)
    /\ \A k \in 1..Len(io) :
           ~io[k][3] => /\ k = Len(io)
                        /\ Returned(FALSE)
                        /\ written = None
    /\ Cardinality(IoReads) <= 1
    /\ Cardinality(IoWrites) <= 1
    /\ \A k \in IoWrites : k = 2 /\ io[1][3]
    /\ (pc = "done" => result \in BOOLEAN)

\* The write failed after a non-empty sample had been gathered.
C7_Witness ==
    /\ Len(io) = 2
    /\ ~io[2][3]
    /\ Len(df_output) > 0
    /\ Returned(FALSE)

\* C8: in argument mode, two path arguments make the run read the first and
\* write the second; any other number is a usage error ending main with
\* False before any file operation.
C8_ArgumentMode ==
    (USE_COMMAND_LINE_ARGS /\ pc # "paths") =>
        IF Len(argv) = 1 + 2
        THEN /\ input_file_path = argv[2]
             /\ output_file_path = argv[3]
             /\ \A k \in 1..Len(io) : io[k][2] = (IF io[k][1] = "read" THEN argv[2] ELSE argv[3])
        ELSE /\ Returned(FALSE)
             /\ io = <<>>

\* C9: cleaning the cleaned table again changes nothing.
C9_CleanIdempotent ==
    Cleaned => Clean(imported_data) = imported_data

\* A cleaned table that lost an erroneous row and holds parsed timestamps.
C9_Witness ==
    /\ Cleaned
    /\ Len(imported_data) < Len(csv_rows)
    /\ \E r \in Range(imported_data) : r.StartDateTime[1] = "ts"
    /\ pc = "devices"

\* C10: rows with a null device id are in no device's subset and not in the
\* output, and a run over a table holding such rows does not stop before
\* the output is written.
C10_NullDeviceRowsIgnored ==
    \A i \in 1..Len(imported_data) :
        isnull(imported_data[i].AudioMothCode) =>
            /\ imported_data[i].index \notin Indexes(df_output)
            /\ \A k \in 1..Len(device_samples) : \A h \in Hours :
                  ~isnull(device_samples[k]) =>
                      imported_data[i].index
                          \notin Indexes(data_for_hour(imported_data, device_samples[k], h))
            /\ pc # "raised"

====
